---- MODULE Spec2Model ----
(***************************************************************************)
(* Model of app/labelling_engine.py: the SVHN detector's box-to-label      *)
(* conversion (SVHNModel.predict / make_label) and the LabellingEngine     *)
(* decision logic with its sliding window of recent labels and the         *)
(* majority vote over it.                                                  *)
(*                                                                         *)
(* The two neural networks are inputs: the checker model's answer is a     *)
(* boolean (is_noise), the YOLO model's answer is either None or a list of *)
(* detection rows, of which the code reads x1 and the class.               *)
(***************************************************************************)
EXTENDS Integers, Sequences, FiniteSets, TLC

\* Bounds of the model.
MaxCap == 3        \* cfg['output_queue_capacity'] ranges over 1..MaxCap
MaxAccepted == 4   \* labels recorded between two clears
MaxIdx == 2        \* images saved when flag_for_save_img is set
MaxBoxes == 5      \* rows of one YOLO output given to the detector alone
MaxX == 3          \* x1 of these rows ranges over 1..MaxX
MaxCapTwo == 2     \* the capacities of two engines side by side: 1..MaxCapTwo

VARIABLES
    output_queue,          \* self.output_queue
    output_queue_cap,      \* self.output_queue_cap
    most_frequent_label,   \* self.most_frequent_label
    flag_for_save_img,     \* self.flag_for_save_img
    idx,                   \* self.idx
    saved,                 \* files written by cv2.imwrite: <<bucket, key>>
    call,                  \* the last call made on the engine, with its inputs
    invoked,               \* the collaborators that call invoked, in order
    ret,                   \* what that call returned
    accepted,              \* the labels recorded since the last clear, oldest first
    had_reset,             \* a clear has thrown recorded labels away
    heap,                  \* two engines side by side: the list objects, by reference
    engines                \* two engines side by side: the fields of each engine

vars == <<output_queue, output_queue_cap, most_frequent_label, flag_for_save_img,
          idx, saved, call, invoked, ret, accepted, had_reset, heap, engines>>

----------------------------------------------------------------------------
\* Python values.

\* Optional[str]: None, or a string.
None == [some |-> FALSE, val |-> ""]
Some(s) == [some |-> TRUE, val |-> s]

Front(s) == SubSeq(s, 1, Len(s) - 1)
Last(s) == s[Len(s)]

Digits == <<"0", "1", "2", "3", "4", "5", "6", "7", "8", "9">>

\* str(n) of a non-negative int.
RECURSIVE str(_)
str(n) == IF n < 10 THEN Digits[n + 1] ELSE str(n \div 10) \o Digits[(n % 10) + 1]

\* ''.join(chars)
RECURSIVE join(_)
join(chars) == IF chars = <<>> THEN "" ELSE chars[1] \o join(Tail(chars))

----------------------------------------------------------------------------
\* SVHNModel

\* One row of the YOLO output: x1 and the class are what the code reads.
Box(x, c) == [x1 |-> x, class |-> c]

\* Mutant of sorted: the boxes stay as the detector emitted them.
sorted_not(boxes) == boxes

\* sorted(boxes, key=lambda x: x['x1']): stable, ascending.
RECURSIVE sorted(_)
sorted(boxes) ==
    IF boxes = <<>> THEN <<>>
    ELSE LET t == sorted(Front(boxes))
             b == Last(boxes)
             k == Cardinality({i \in 1..Len(t) : t[i].x1 <= b.x1})
         IN  SubSeq(t, 1, k) \o <<b>> \o SubSeq(t, k + 1, Len(t))

\* The character of one box: str(box['class']), with '10' turned into '0'.
char_of(box) == IF str(box.class) = "10" THEN "0" ELSE str(box.class)

\* Mutant of make_label: the last character follows the separator.
make_label_last(boxes) ==
    LET chars == [i \in 1..Len(boxes) |-> char_of(boxes[i])]
    IN  IF Len(chars) = 3 THEN join(chars)
        ELSE IF Len(chars) >= 4
             THEN join(SubSeq(chars, 1, 3)) \o "-" \o chars[Len(chars)]
        ELSE ""

make_label(boxes) ==
    LET chars == [i \in 1..Len(boxes) |-> char_of(boxes[i])]
    IN  IF Len(chars) = 3 THEN join(chars)
        ELSE IF Len(chars) >= 4 THEN join(SubSeq(chars, 1, 3)) \o "-" \o chars[4]
        ELSE ""

\* Mutants of too_few: the threshold one too low, and only no box at all is
\* too few.
too_few_below_two(boxes) == Len(boxes) <= 1
too_few_none(boxes) == Len(boxes) = 0

\* "if len(boxes) <= 2": too few boxes to make a label of.
too_few(boxes) == Len(boxes) <= 2

\* prediction: [isNone |-> prediction[0] is None, rows |-> the rows of the output]
SVHNModel_predict(prediction) ==
    IF prediction.isNone THEN None
    ELSE LET boxes == sorted(prediction.rows)
         IN  IF too_few(boxes) THEN None ELSE Some(make_label(boxes))

----------------------------------------------------------------------------
\* LabellingEngine: the majority vote.

\* Counter(q) as the ordered list of its items <<element, count>>: a dict keeps
\* its keys in the order of their first insertion.
RECURSIVE Counter(_)
Counter(q) ==
    IF q = <<>> THEN <<>>
    ELSE LET c == Counter(Front(q))
             x == Last(q)
         IN  IF \E i \in 1..Len(c) : c[i][1] = x
             THEN [i \in 1..Len(c) |-> IF c[i][1] = x THEN <<x, c[i][2] + 1>> ELSE c[i]]
             ELSE Append(c, <<x, 1>>)

\* Mutants of better: the comparison inverted, and the comparison not strict.
better_inverted(item, best) == item[2] < best[2]
better_or_equal(item, best) == item[2] >= best[2]

\* Whether a later item replaces the best one so far in max(items, key=count).
better(item, best) == item[2] > best[2]

\* most_common(1) is heapq.nlargest(1, items, key=count), which is
\* max(items, key=count): the first item of the highest count.
RECURSIVE max_by_count(_)
max_by_count(items) ==
    IF Len(items) = 1 THEN items[1]
    ELSE LET best == max_by_count(Front(items))
         IN  IF better(Last(items), best) THEN Last(items) ELSE best

\* func = lambda q: Counter(q).most_common(1)[0][0]
func(q) == max_by_count(Counter(q))[1]

\* Of an empty q most_common(1) is [], and its [0] raises IndexError.
func_raises(q) == q = <<>>

\* Mutants of evict: the queue is never cut, the queue is cut at its tail, and
\* the queue is cut as soon as it is full.
evict_never(q, cap) == q
evict_newest(q, cap) == IF Len(q) > cap THEN Front(q) ELSE q
evict_when_full(q, cap) == IF Len(q) >= cap THEN Tail(q) ELSE q

\* "if len(self.output_queue) > self.output_queue_cap: self.output_queue = self.output_queue[1:]"
evict(q, cap) == IF Len(q) > cap THEN Tail(q) ELSE q

\* Mutant of get_most_frequent_label: asking for the label without a new one
\* drops the oldest.
get_most_frequent_label_consuming(q, cap, now) ==
    IF ~now.some
    THEN [queue |-> IF q = <<>> THEN q ELSE Tail(q), raised |-> FALSE,
          result |-> IF Len(q) = 0 THEN "" ELSE func(q)]
    ELSE LET q2 == evict(Append(q, now.val), cap)
         IN  [queue |-> q2, raised |-> func_raises(q2),
              result |-> IF func_raises(q2) THEN "" ELSE func(q2)]

\* Mutant of get_most_frequent_label: the new label is put at the head.
get_most_frequent_label_at_head(q, cap, now) ==
    IF ~now.some
    THEN [queue |-> q, raised |-> FALSE,
          result |-> IF Len(q) = 0 THEN "" ELSE func(q)]
    ELSE LET q2 == evict(<<now.val>> \o q, cap)
         IN  [queue |-> q2, raised |-> func_raises(q2),
              result |-> IF func_raises(q2) THEN "" ELSE func(q2)]

\* get_most_frequent_label(now): the queue it leaves, whether it raises
\* (func's IndexError), and the string it returns when it does not.
get_most_frequent_label(q, cap, now) ==
    IF ~now.some
    THEN [queue |-> q, raised |-> FALSE,
          result |-> IF Len(q) = 0 THEN "" ELSE func(q)]
    ELSE LET q2 == evict(Append(q, now.val), cap)
         IN  [queue |-> q2, raised |-> func_raises(q2),
              result |-> IF func_raises(q2) THEN "" ELSE func(q2)]

----------------------------------------------------------------------------
\* LabellingEngine: one call of predict.

\* What a call returns: None, a string (label), or predict's tuple
\* (raw, label, flag); or the exception it ends with.
RetRaise == [type |-> "IndexError", raw |-> "", label |-> "", flag |-> FALSE]
RetNone == [type |-> "None", raw |-> "", label |-> "", flag |-> FALSE]
RetStr(s) == [type |-> "str", raw |-> "", label |-> s, flag |-> FALSE]
RetTuple(raw, label, flag) == [type |-> "tuple", raw |-> raw, label |-> label, flag |-> flag]

\* Mutant of on_noise: a noisy frame forgets the cached label.
on_noise_forgets(q, mfl) == [ret |-> RetTuple("Noise", "", FALSE), queue |-> q, mfl |-> ""]

\* "if is_noise: return 'Noise', self.most_frequent_label, False"
on_noise(q, mfl) == [ret |-> RetTuple("Noise", mfl, FALSE), queue |-> q, mfl |-> mfl]

\* Mutant of on_none: a frame without a label ages the window.
on_none_ages(q, mfl) ==
    [ret |-> RetTuple("NaN", mfl, FALSE),
     queue |-> IF q = <<>> THEN q ELSE Tail(q), mfl |-> mfl]

\* "if now is None: return 'NaN', self.most_frequent_label, False"
on_none(q, mfl) == [ret |-> RetTuple("NaN", mfl, FALSE), queue |-> q, mfl |-> mfl]

\* Mutant of on_label: the raw label is cached and returned in place of the
\* majority.
on_label_raw(q, cap, mfl, now) ==
    LET g == get_most_frequent_label(q, cap, Some(now))
    IN  IF g.raised THEN [ret |-> RetRaise, queue |-> g.queue, mfl |-> mfl]
        ELSE [ret |-> RetTuple(now, now, TRUE), queue |-> g.queue, mfl |-> now]

\* "self.most_frequent_label = self.get_most_frequent_label(now)
\*  return now, self.most_frequent_label, True"
\* An exception of get_most_frequent_label leaves predict before the
\* assignment: the queue is changed, the cached label is not.
on_label(q, cap, mfl, now) ==
    LET g == get_most_frequent_label(q, cap, Some(now))
    IN  IF g.raised THEN [ret |-> RetRaise, queue |-> g.queue, mfl |-> mfl]
        ELSE [ret |-> RetTuple(now, g.result, TRUE), queue |-> g.queue,
              mfl |-> g.result]

\* Mutant of decide: the detector is asked before the noise is looked at.
decide_eager(q, cap, mfl, is_noise, prediction) ==
    IF is_noise
    THEN [calls |-> <<"model1.predict", "model2.predict">>] @@ on_noise(q, mfl)
    ELSE LET now == SVHNModel_predict(prediction)
         IN  IF ~now.some
             THEN [calls |-> <<"model1.predict", "model2.predict">>]
                  @@ on_none(q, mfl)
             ELSE [calls |-> <<"model1.predict", "model2.predict",
                               "get_most_frequent_label">>]
                  @@ on_label(q, cap, mfl, now.val)

\* The decision of predict: what it returns and the queue and the cached label
\* it leaves. model1.predict(img) is the input is_noise, model2's raw output is
\* the input prediction, read only when the image is not noise.
\* calls lists the collaborators invoked on the way: self.model1.predict,
\* self.model2.predict and self.get_most_frequent_label.
decide(q, cap, mfl, is_noise, prediction) ==
    IF is_noise
    THEN [calls |-> <<"model1.predict">>] @@ on_noise(q, mfl)
    ELSE LET now == SVHNModel_predict(prediction)
         IN  IF ~now.some
             THEN [calls |-> <<"model1.predict", "model2.predict">>]
                  @@ on_none(q, mfl)
             ELSE [calls |-> <<"model1.predict", "model2.predict",
                               "get_most_frequent_label">>]
                  @@ on_label(q, cap, mfl, now.val)

\* "if self.flag_for_save_img": the image goes to <bucket>/<idx>.png and idx
\* moves on.
bucket(is_noise) == IF is_noise THEN "noise" ELSE "num"

\* Mutant of save_img: idx moves on only for the images that are not noise.
save_img_noise_keeps_idx(flag, i, files, is_noise) ==
    IF flag THEN [idx |-> IF is_noise THEN i ELSE i + 1,
                  saved |-> files \cup {<<bucket(is_noise), i>>}]
    ELSE [idx |-> i, saved |-> files]

save_img(flag, i, files, is_noise) ==
    IF flag THEN [idx |-> i + 1, saved |-> files \cup {<<bucket(is_noise), i>>}]
    ELSE [idx |-> i, saved |-> files]

----------------------------------------------------------------------------
\* The outputs of the YOLO model the engine is run on.

NoPrediction == [isNone |-> TRUE, rows |-> <<>>]
Rows(r) == [isNone |-> FALSE, rows |-> r]

Predictions ==
    { NoPrediction,
      Rows(<<>>),
      Rows(<<Box(5, 1), Box(10, 2)>>),
      Rows(<<Box(5, 1), Box(10, 2), Box(20, 3)>>),
      Rows(<<Box(10, 3), Box(5, 1), Box(20, 2)>>),
      Rows(<<Box(30, 6), Box(20, 5), Box(10, 4)>>),
      Rows(<<Box(1, 7), Box(2, 1), Box(3, 9), Box(4, 10)>>),
      Rows(<<Box(5, 4), Box(1, 7), Box(2, 1), Box(3, 9), Box(4, 10)>>) }

NoCall(op) == [op |-> op, is_noise |-> FALSE, prediction |-> NoPrediction]

----------------------------------------------------------------------------
\* The engine as a state machine.

\* LabellingEngine.__init__
Init ==
    /\ output_queue = <<>>
    /\ output_queue_cap \in 1..MaxCap
    /\ most_frequent_label = ""
    /\ flag_for_save_img \in BOOLEAN
    /\ idx = 0
    /\ saved = {}
    /\ call = NoCall("init")
    /\ invoked = <<>>
    /\ ret = RetNone
    /\ accepted = <<>>
    /\ had_reset = FALSE
    /\ heap = <<>>
    /\ engines = <<>>

\* LabellingEngine.predict(img, bigimg): is_noise is the answer of model1, and
\* prediction the output of model2 (NoPrediction when model2 is not asked).
Predict(is_noise, prediction) ==
    LET s == save_img(flag_for_save_img, idx, saved, is_noise)
        d == decide(output_queue, output_queue_cap, most_frequent_label,
                    is_noise, prediction)
    IN  /\ flag_for_save_img => idx < MaxIdx
        /\ d.ret.flag => Len(accepted) < MaxAccepted
        /\ idx' = s.idx
        /\ saved' = s.saved
        /\ output_queue' = d.queue
        /\ most_frequent_label' = d.mfl
        /\ ret' = d.ret
        /\ call' = [op |-> "predict", is_noise |-> is_noise, prediction |-> prediction]
        /\ invoked' = d.calls
        /\ accepted' = IF d.ret.flag THEN Append(accepted, d.ret.raw) ELSE accepted
        /\ UNCHANGED <<output_queue_cap, flag_for_save_img, had_reset, heap, engines>>

\* LabellingEngine.get_most_frequent_label() called without a label.
GetMajority ==
    LET g == get_most_frequent_label(output_queue, output_queue_cap, None)
    IN  /\ output_queue' = g.queue
        /\ ret' = IF g.raised THEN RetRaise ELSE RetStr(g.result)
        /\ call' = NoCall("get_most_frequent_label")
        /\ invoked' = <<>>
        /\ UNCHANGED <<output_queue_cap, most_frequent_label, flag_for_save_img,
                       idx, saved, accepted, had_reset, heap, engines>>

\* Mutants of cleared: the cached label is reset and the queue is kept, and the
\* queue is emptied and the cached label is kept.
cleared_label_only(q, mfl) == [queue |-> q, mfl |-> ""]
cleared_queue_only(q, mfl) == [queue |-> <<>>, mfl |-> mfl]

\* What clear_most_frequent_label leaves: the cached label and the queue.
cleared(q, mfl) == [queue |-> <<>>, mfl |-> ""]

\* LabellingEngine.clear_most_frequent_label()
Clear ==
    LET c == cleared(output_queue, most_frequent_label)
    IN  /\ output_queue' = c.queue
        /\ most_frequent_label' = c.mfl
        /\ ret' = RetNone
        /\ call' = NoCall("clear_most_frequent_label")
        /\ invoked' = <<>>
        /\ accepted' = <<>>
        /\ had_reset' = (had_reset \/ accepted # <<>>)
        /\ UNCHANGED <<output_queue_cap, flag_for_save_img, idx, saved, heap, engines>>

\* LabellingEngine.close()
Close ==
    /\ ret' = RetNone
    /\ call' = NoCall("close")
    /\ invoked' = <<>>
    /\ UNCHANGED <<output_queue, output_queue_cap, most_frequent_label,
                   flag_for_save_img, idx, saved, accepted, had_reset, heap, engines>>

Next ==
    \/ Predict(TRUE, NoPrediction)
    \/ \E prediction \in Predictions : Predict(FALSE, prediction)
    \/ GetMajority
    \/ Clear
    \/ Close

Spec == Init /\ [][Next]_vars

\* The engine built with any capacity the configuration can hold, 0 included:
\* cfg['output_queue_capacity'] is not checked by __init__.
InitAnyCap ==
    /\ output_queue = <<>>
    /\ output_queue_cap \in 0..MaxCap
    /\ most_frequent_label = ""
    /\ flag_for_save_img \in BOOLEAN
    /\ idx = 0
    /\ saved = {}
    /\ call = NoCall("init")
    /\ invoked = <<>>
    /\ ret = RetNone
    /\ accepted = <<>>
    /\ had_reset = FALSE
    /\ heap = <<>>
    /\ engines = <<>>

SpecAnyCap == InitAnyCap /\ [][Next]_vars

----------------------------------------------------------------------------
\* SVHNModel.predict alone, on every output of the YOLO model within the
\* bounds and on the outputs above: call holds the output, ret what predict
\* returns for it.

ClassIds == {7, 10}
BoxSet == {Box(x, c) : x \in 1..MaxX, c \in ClassIds}
BoundedRows == UNION {[1..n -> BoxSet] : n \in 0..MaxBoxes}

InitDetector ==
    /\ output_queue = <<>>
    /\ output_queue_cap = 1
    /\ most_frequent_label = ""
    /\ flag_for_save_img = FALSE
    /\ idx = 0
    /\ saved = {}
    /\ call \in {[op |-> "bigimg", is_noise |-> FALSE, prediction |-> p] :
                    p \in Predictions \cup {Rows(r) : r \in BoundedRows}}
    /\ invoked = <<>>
    /\ ret = RetNone
    /\ accepted = <<>>
    /\ had_reset = FALSE
    /\ heap = <<>>
    /\ engines = <<>>

\* SVHNModel.predict(img)
Detect ==
    /\ call.op = "bigimg"
    /\ call' = [call EXCEPT !.op = "SVHNModel.predict"]
    /\ ret' = LET now == SVHNModel_predict(call.prediction)
              IN  IF now.some THEN RetStr(now.val) ELSE RetNone
    /\ UNCHANGED <<output_queue, output_queue_cap, most_frequent_label,
                   flag_for_save_img, idx, saved, invoked, accepted, had_reset,
                   heap, engines>>

NextDetector == Detect

SpecDetector == InitDetector /\ [][NextDetector]_vars

----------------------------------------------------------------------------
\* Two engines side by side. A Python list is an object: heap[r] is the list of
\* reference r and engines[e].output_queue the reference engine e holds.
\* append and clear change the object in place, a slice makes a new object.
\* Both engines are built with flag_for_save_img not set.

Engines == {1, 2}

\* Mutant of new_queue: one list for all the engines (a class attribute).
shared_queue(e) == 1

\* "self.output_queue = []": a list of the engine's own.
new_queue(e) == e

\* The outputs of the YOLO model the two engines are run on.
PredictionsTwo ==
    { NoPrediction,
      Rows(<<Box(5, 1), Box(10, 2), Box(20, 3)>>),
      Rows(<<Box(30, 6), Box(20, 5), Box(10, 4)>>) }

CallOn(e, op, is_noise, prediction) ==
    [op |-> op, engine |-> e, is_noise |-> is_noise, prediction |-> prediction]

\* LabellingEngine.__init__, twice.
InitTwo ==
    /\ output_queue = <<>>
    /\ output_queue_cap = 1
    /\ most_frequent_label = ""
    /\ flag_for_save_img = FALSE
    /\ idx = 0
    /\ saved = {}
    /\ call = CallOn(0, "init", FALSE, NoPrediction)
    /\ invoked = <<>>
    /\ ret = RetNone
    /\ accepted = <<>>
    /\ had_reset = FALSE
    /\ heap = [r \in Engines |-> <<>>]
    /\ engines \in {[e \in Engines |->
                        [output_queue |-> new_queue(e),
                         output_queue_cap |-> c[e],
                         most_frequent_label |-> ""]] :
                    c \in [Engines -> 1..MaxCapTwo]}

\* The reference of the list a slice of engine e's list makes: a reference no
\* engine holds (the engine's old one, if no other engine holds it).
SliceRef(e) ==
    IF \E o \in Engines \ {e} : engines[o].output_queue = engines[e].output_queue
    THEN CHOOSE r \in Engines : \A o \in Engines : engines[o].output_queue # r
    ELSE engines[e].output_queue

\* engines[e].predict(img, bigimg)
PredictOn(e, is_noise, prediction) ==
    LET self == engines[e]
        q == heap[self.output_queue]
        d == decide(q, self.output_queue_cap, self.most_frequent_label,
                    is_noise, prediction)
        records == d.calls[Len(d.calls)] = "get_most_frequent_label"
        appended == Append(q, SVHNModel_predict(prediction).val)
        slices == records /\ d.queue # appended
    IN  /\ heap' = IF ~records THEN heap
                   ELSE IF ~slices THEN [heap EXCEPT ![self.output_queue] = appended]
                   ELSE [heap EXCEPT ![self.output_queue] = appended,
                                     ![SliceRef(e)] = d.queue]
        /\ engines' = [engines EXCEPT
                          ![e].output_queue = IF slices THEN SliceRef(e) ELSE @,
                          ![e].most_frequent_label = d.mfl]
        /\ call' = CallOn(e, "predict", is_noise, prediction)
        /\ invoked' = d.calls
        /\ ret' = d.ret
        /\ UNCHANGED <<output_queue, output_queue_cap, most_frequent_label,
                       flag_for_save_img, idx, saved, accepted, had_reset>>

\* engines[e].clear_most_frequent_label()
ClearOn(e) ==
    LET self == engines[e]
        c == cleared(heap[self.output_queue], self.most_frequent_label)
    IN  /\ heap' = [heap EXCEPT ![self.output_queue] = c.queue]
        /\ engines' = [engines EXCEPT ![e].most_frequent_label = c.mfl]
        /\ call' = CallOn(e, "clear_most_frequent_label", FALSE, NoPrediction)
        /\ invoked' = <<>>
        /\ ret' = RetNone
        /\ UNCHANGED <<output_queue, output_queue_cap, most_frequent_label,
                       flag_for_save_img, idx, saved, accepted, had_reset>>

NextTwo ==
    \/ \E e \in Engines : PredictOn(e, TRUE, NoPrediction)
    \/ \E e \in Engines, prediction \in PredictionsTwo : PredictOn(e, FALSE, prediction)
    \/ \E e \in Engines : ClearOn(e)

SpecTwo == InitTwo /\ [][NextTwo]_vars

----------------------------------------------------------------------------
\* Vocabulary of the properties.

Range(q) == {q[i] : i \in 1..Len(q)}
Min(a, b) == IF a <= b THEN a ELSE b

\* The last n elements of s, in order.
LastN(s, n) == SubSeq(s, Len(s) - n + 1, Len(s))

\* How often v occurs in q, and where it occurs first.
Count(q, v) == Cardinality({i \in 1..Len(q) : q[i] = v})
FirstAt(q, v) == CHOOSE i \in 1..Len(q) : q[i] = v /\ \A j \in 1..(i - 1) : q[j] # v

\* The values of the highest count in q.
Top(q) == {v \in Range(q) : \A w \in Range(q) : Count(q, w) <= Count(q, v)}

\* v is the majority label of q: of the highest count, and among those the one
\* that occurs first.
IsMajority(q, v) == v \in Top(q) /\ \A w \in Top(q) : FirstAt(q, v) <= FirstAt(q, w)

\* The last call, by its decision state.
IsNoiseCall(c) == c.op = "predict" /\ c.is_noise
IsNoLabelCall(c) ==
    /\ c.op = "predict" /\ ~c.is_noise
    /\ (c.prediction.isNone \/ Len(c.prediction.rows) < 3)
IsLabelledCall(c) ==
    /\ c.op = "predict" /\ ~c.is_noise
    /\ ~c.prediction.isNone /\ Len(c.prediction.rows) >= 3

----------------------------------------------------------------------------
\* C1: whatever the capacity C >= 1 and the calls made, the label history is
\* never longer than C between calls.
C1_LengthWithinCapacity == Len(output_queue) <= output_queue_cap

\* A full history that has already lost a label to eviction.
C1_Witness ==
    /\ Len(output_queue) = output_queue_cap
    /\ Len(accepted) > output_queue_cap

\* C2: a predict call on a noisy image returns ("Noise", s, False), s being the
\* stabilized label before the call, and changes neither the history nor the
\* cached stabilized label.
C2_NoiseFrame ==
    [][IsNoiseCall(call') =>
          /\ ret' = RetTuple("Noise", most_frequent_label, FALSE)
          /\ output_queue' = output_queue
          /\ most_frequent_label' = most_frequent_label]_vars

\* A noisy frame after "123" was established returns ("Noise", "123", False).
C2_Witness ==
    /\ IsNoiseCall(call)
    /\ ret = RetTuple("Noise", "123", FALSE)
    /\ most_frequent_label = "123"
    /\ output_queue # <<>>

\* C3: a predict call on a not-noise image for which the detector has nothing
\* usable (no detections, or fewer than 3) returns ("NaN", s, False), s being
\* the stabilized label before the call, and changes neither the history nor
\* the cached stabilized label.
C3_NoLabelFrame ==
    [][IsNoLabelCall(call') =>
          /\ ret' = RetTuple("NaN", most_frequent_label, FALSE)
          /\ output_queue' = output_queue
          /\ most_frequent_label' = most_frequent_label]_vars

\* A frame of two boxes after a label was established.
C3_Witness ==
    /\ IsNoLabelCall(call)
    /\ Len(call.prediction.rows) = 2
    /\ ret = RetTuple("NaN", most_frequent_label, FALSE)
    /\ most_frequent_label # ""
    /\ output_queue # <<>>

\* C4: a predict call on a not-noise image for which the detector yields the
\* label L returns (L, m, True), m being the majority label of the history
\* after L is appended and the eviction applied; m is the cached stabilized
\* label after the call.
C4_LabelledFrame ==
    [][IsLabelledCall(call') =>
          /\ ret'.type = "tuple"
          /\ ret'.raw = SVHNModel_predict(call'.prediction).val
          /\ ret'.flag = TRUE
          /\ IsMajority(LastN(Append(output_queue, ret'.raw),
                              Min(Len(output_queue) + 1, output_queue_cap)),
                        ret'.label)
          /\ most_frequent_label' = ret'.label]_vars

\* A labelled frame whose raw label is not the majority.
C4_Witness ==
    /\ IsLabelledCall(call)
    /\ ret.flag
    /\ ret.raw # ret.label
    /\ most_frequent_label = ret.label
    /\ Len(accepted) > output_queue_cap

\* The calls that return a majority label: a labelled predict and
\* get_most_frequent_label().
ReturnsMajority(c) == IsLabelledCall(c) \/ c.op = "get_most_frequent_label"

\* C5: over a non-empty history, the majority computation returns the label
\* whose count is strictly higher than every other's, whenever there is one
\* (the result is a function of the ordered history).
C5_StrictMajority ==
    (ReturnsMajority(call) /\ output_queue # <<>>) =>
        \A v \in Range(output_queue) :
            (\A w \in Range(output_queue) \ {v} :
                 Count(output_queue, w) < Count(output_queue, v))
            => ret.label = v

\* The strict majority is neither the oldest nor the only label of the history.
C5_Witness ==
    /\ ReturnsMajority(call)
    /\ Cardinality(Range(output_queue)) >= 2
    /\ Cardinality(Top(output_queue)) = 1
    /\ ret.label \in Top(output_queue)
    /\ ret.label # output_queue[1]

\* C6: when several labels share the highest count, the majority computation
\* returns the one of them that occurs first in the history as it is after the
\* eviction.
C6_TieFirstOccurrence ==
    (ReturnsMajority(call) /\ Cardinality(Top(output_queue)) > 1) =>
        /\ ret.label \in Top(output_queue)
        /\ \A w \in Top(output_queue) :
               FirstAt(output_queue, ret.label) <= FirstAt(output_queue, w)

\* A tie in which the label recorded first of all is tied and loses, because
\* its first occurrence was evicted.
C6_Witness ==
    /\ IsLabelledCall(call)
    /\ Cardinality(Top(output_queue)) > 1
    /\ Len(accepted) > output_queue_cap
    /\ accepted[1] \in Top(output_queue)
    /\ ret.label # accepted[1]
    /\ ret.label = output_queue[1]

\* C7: after clear_most_frequent_label the history is empty and the cached
\* stabilized label is ""; get_most_frequent_label() then returns ""; and the
\* first label L recorded after it gives the stabilized label L.
C7_Reset ==
    /\ call.op = "clear_most_frequent_label" =>
           output_queue = <<>> /\ most_frequent_label = ""
    /\ (call.op = "get_most_frequent_label" /\ accepted = <<>>) => ret.label = ""
    /\ (IsLabelledCall(call) /\ Len(accepted) = 1) =>
           /\ ret.raw = accepted[1]
           /\ ret.label = accepted[1]
           /\ most_frequent_label = accepted[1]
           /\ output_queue = <<accepted[1]>>

\* The first label recorded after a clear that threw labels away.
C7_Witness ==
    /\ had_reset
    /\ IsLabelledCall(call)
    /\ Len(accepted) = 1
    /\ ret.label = accepted[1]

\* The labels a window of capacity cap holds after the labels in acc were
\* recorded: the last min(k, cap) of them.
Window(acc, cap) == LastN(acc, Min(Len(acc), cap))

\* C8: the history is the last min(k, C) labels accepted since the last reset,
\* whatever NOISE and NO_LABEL frames came between them, and the stabilized
\* label a LABELLED call returns is the majority label of these. With C = 3
\* the labels "123", "123", "456", "456" give "123", "123", "123", "456".
C8_WindowOfAccepted ==
    /\ output_queue = Window(accepted, output_queue_cap)
    /\ IsLabelledCall(call) =>
           /\ IsMajority(Window(accepted, output_queue_cap), ret.label)
           /\ most_frequent_label = ret.label
    /\ (IsLabelledCall(call) /\ output_queue_cap = 3) =>
           /\ accepted \in {<<"123">>, <<"123", "123">>, <<"123", "123", "456">>}
                  => ret.label = "123"
           /\ accepted = <<"123", "123", "456", "456">> => ret.label = "456"

\* The fourth label of the example, recorded after an earlier reset.
C8_Witness ==
    /\ had_reset
    /\ IsLabelledCall(call)
    /\ output_queue_cap = 3
    /\ accepted = <<"123", "123", "456", "456">>
    /\ output_queue = <<"123", "456", "456">>
    /\ ret.label = "456"

\* C9, as stated: after C + 1 insertions the label inserted first is not in
\* the history.
C9_FirstLabelAbsent ==
    Len(accepted) = output_queue_cap + 1 => accepted[1] \notin Range(output_queue)

\* C9, amended: after C + 1 insertions the entry inserted first is evicted: the
\* history is the 2nd to the (C+1)th inserted labels, in order, so the label
\* inserted first is in it only if it was inserted again among these.
C9_FirstEntryEvicted ==
    Len(accepted) = output_queue_cap + 1 =>
        /\ output_queue = SubSeq(accepted, 2, output_queue_cap + 1)
        /\ (accepted[1] \in Range(output_queue)
               <=> \E i \in 2..(output_queue_cap + 1) : accepted[i] = accepted[1])

\* C + 1 insertions of distinct first label: the first label is gone.
C9_Witness ==
    /\ Len(accepted) = output_queue_cap + 1
    /\ output_queue_cap >= 2
    /\ accepted[1] \notin Range(output_queue)
    /\ output_queue[1] = accepted[2]

\* C10: recording L leaves the last min(n + 1, C) elements of the old history
\* followed by L, in order; one removal at the head is enough, so the length
\* is C whenever the history was full.
C10_RecordIsSlidingWindow ==
    [][IsLabelledCall(call') =>
          LET L == ret'.raw
              n == Len(output_queue)
              all == Append(output_queue, L)
          IN  /\ output_queue' = LastN(all, Min(n + 1, output_queue_cap))
              /\ Len(all) - Len(output_queue') <= 1
              /\ Len(output_queue') <= output_queue_cap
              /\ n = output_queue_cap => Len(output_queue') = output_queue_cap]_vars

\* A label recorded into a full history of more than one label.
C10_Witness ==
    /\ IsLabelledCall(call)
    /\ output_queue_cap >= 2
    /\ Len(accepted) > output_queue_cap
    /\ Len(output_queue) = output_queue_cap
    /\ Last(output_queue) = ret.raw
    /\ output_queue[1] # ret.raw

----------------------------------------------------------------------------
\* The decision state a predict call ended in, read from what it returned.
InDecisionState(st) ==
    \/ st = "NOISE" /\ IsNoiseCall(call) /\ ret.raw = "Noise" /\ ~ret.flag
    \/ st = "NO_LABEL" /\ IsNoLabelCall(call) /\ ret.raw = "NaN" /\ ~ret.flag
    \/ st = "LABELLED" /\ IsLabelledCall(call) /\ ret.flag
                       /\ ret.raw \notin {"Noise", "NaN"}

\* C11: with a positive capacity no call raises; a predict call returns a
\* triple and ends in exactly one of NOISE, NO_LABEL and LABELLED, its flag
\* being True exactly when the raw output is neither "Noise" nor "NaN";
\* get_most_frequent_label returns a string and clear_most_frequent_label
\* returns.
C11_NoFault ==
    output_queue_cap >= 1 =>
        /\ ret.type # "IndexError"
        /\ call.op = "predict" =>
               /\ ret.type = "tuple"
               /\ Cardinality({st \in {"NOISE", "NO_LABEL", "LABELLED"} :
                                  InDecisionState(st)}) = 1
               /\ ret.flag <=> ret.raw \notin {"Noise", "NaN"}
        /\ call.op = "get_most_frequent_label" => ret.type = "str"
        /\ call.op = "clear_most_frequent_label" => ret.type = "None"

\* A label recorded at the least capacity, after an eviction.
C11_Witness ==
    /\ output_queue_cap = 1
    /\ IsLabelledCall(call)
    /\ Len(accepted) >= 2
    /\ ret.type = "tuple"
    /\ ret.flag

\* C12: get_most_frequent_label() returns the majority label of the history,
\* "" when the history is empty, and changes neither the history nor the cached
\* stabilized label.
C12_GetMajority ==
    [][call'.op = "get_most_frequent_label" =>
          /\ ret'.type = "str"
          /\ output_queue = <<>> => ret'.label = ""
          /\ output_queue # <<>> => IsMajority(output_queue, ret'.label)
          /\ output_queue' = output_queue
          /\ most_frequent_label' = most_frequent_label]_vars

\* Asked of a history of several labels whose majority is not the newest.
C12_Witness ==
    /\ call.op = "get_most_frequent_label"
    /\ Cardinality(Range(output_queue)) >= 2
    /\ ret = RetStr(most_frequent_label)
    /\ ret.label # Last(output_queue)

----------------------------------------------------------------------------
\* The detector's conversion.

\* Where the i-th emitted row stands in ascending order of x1, rows of equal x1
\* in the order of emission.
RankOf(rows, i) ==
    1 + Cardinality({j \in 1..Len(rows) :
                        \/ rows[j].x1 < rows[i].x1
                        \/ rows[j].x1 = rows[i].x1 /\ j < i})

\* The rows in that order.
Ordered(rows) ==
    [p \in 1..Len(rows) |-> rows[CHOOSE i \in 1..Len(rows) : RankOf(rows, i) = p]]

\* The character a class-id stands for.
CharOfClass(c) == IF c = 10 THEN "0" ELSE ToString(c)

\* The rows predict was last run on, and whether it has run.
Detected == call.op = "SVHNModel.predict"
DetectedRows == call.prediction.rows

\* C13: of the detections in left-x order, fewer than 3 give None; exactly 3
\* give their three characters; 4 or more give the first three characters,
\* '-', and the fourth, the others being ignored; class-id 10 stands for '0'
\* and any other class-id for its decimal string.
C13_SequenceToLabel ==
    Detected =>
        LET b == Ordered(DetectedRows)
            ch(i) == CharOfClass(b[i].class)
        IN  /\ (call.prediction.isNone \/ Len(b) < 3) => ret = RetNone
            /\ (~call.prediction.isNone /\ Len(b) = 3)
                   => ret = RetStr(ch(1) \o ch(2) \o ch(3))
            /\ (~call.prediction.isNone /\ Len(b) >= 4)
                   => ret = RetStr(ch(1) \o ch(2) \o ch(3) \o "-" \o ch(4))

\* Classes 7, 1, 9, 10 and a fifth box to their right give "719-0".
C13_Witness ==
    /\ Detected
    /\ Len(DetectedRows) = 5
    /\ DetectedRows[1].x1 > DetectedRows[5].x1
    /\ ret = RetStr("719-0")

\* Of the rows not yet used, row i is one of the leftmost.
IsNextLeft(rows, used, i) ==
    /\ i \notin used
    /\ \A j \in (1..Len(rows)) \ used : rows[i].x1 <= rows[j].x1

\* C14: the characters of a label stand in ascending order of the x1 of their
\* boxes, whatever the order the detector emitted the boxes in: the first
\* character is of a leftmost box, the second of a leftmost of the others, and
\* so on. Boxes at x = 10, 5, 20 of classes 3, 1, 2 give "132".
C14_AscendingX ==
    (Detected /\ ret.type = "str") =>
        LET r == DetectedRows
            n == Len(r)
            c(i) == CharOfClass(r[i].class)
        IN  /\ \E i1 \in 1..n : IsNextLeft(r, {}, i1) /\
                \E i2 \in 1..n : IsNextLeft(r, {i1}, i2) /\
                 \E i3 \in 1..n : IsNextLeft(r, {i1, i2}, i3) /\
                    IF n = 3
                    THEN ret.label = c(i1) \o c(i2) \o c(i3)
                    ELSE \E i4 \in 1..n : IsNextLeft(r, {i1, i2, i3}, i4) /\
                            ret.label = c(i1) \o c(i2) \o c(i3) \o "-" \o c(i4)
            /\ r = <<Box(10, 3), Box(5, 1), Box(20, 2)>> => ret.label = "132"

\* The example: the boxes are emitted out of order and the label is in order.
C14_Witness ==
    /\ Detected
    /\ DetectedRows = <<Box(10, 3), Box(5, 1), Box(20, 2)>>
    /\ ret = RetStr("132")

----------------------------------------------------------------------------
\* How often, and where first, a collaborator stands in the calls of a call.
Times(calls, name) == Cardinality({i \in 1..Len(calls) : calls[i] = name})
Before(calls, a, b) ==
    \A i, j \in 1..Len(calls) : (calls[i] = a /\ calls[j] = b) => i < j

\* C15: in one predict call the classifier is called exactly once and first;
\* the detector at most once, and only if the classifier said not-noise; the
\* stabilizer is updated at most once, and only if the detector gave a label.
C15_CallOrder ==
    call.op = "predict" =>
        /\ Len(invoked) >= 1 /\ invoked[1] = "model1.predict"
        /\ Times(invoked, "model1.predict") = 1
        /\ Times(invoked, "model2.predict") <= 1
        /\ Times(invoked, "model2.predict") = 1 => ~call.is_noise
        /\ Times(invoked, "get_most_frequent_label") <= 1
        /\ Times(invoked, "get_most_frequent_label") = 1 =>
               /\ Times(invoked, "model2.predict") = 1
               /\ IsLabelledCall(call)
               /\ ret.flag
        /\ Before(invoked, "model1.predict", "model2.predict")
        /\ Before(invoked, "model2.predict", "get_most_frequent_label")
        /\ Times(invoked, "get_most_frequent_label") = 0 => ~ret.flag

\* The three shapes of a call: a labelled frame invokes all three.
C15_Witness ==
    /\ call.op = "predict"
    /\ invoked = <<"model1.predict", "model2.predict", "get_most_frequent_label">>
    /\ ret.flag
    /\ Len(accepted) >= 2

----------------------------------------------------------------------------
\* The keys of the saved images.
Keys(files) == {f[2] : f \in files}

\* C16: with flag_for_save_img set, every predict call, whatever its decision
\* state, saves its image under the current idx, a key no saved image has, and
\* adds exactly 1 to idx; with the flag not set idx never changes and nothing
\* is saved; a call other than predict never changes idx.
C16_SaveCounter ==
    [][/\ (call'.op = "predict" /\ flag_for_save_img) =>
              /\ idx' = idx + 1
              /\ idx \notin Keys(saved)
              /\ saved' = saved \cup {<<IF call'.is_noise THEN "noise" ELSE "num", idx>>}
       /\ ~flag_for_save_img => (idx' = idx /\ saved' = saved)
       /\ call'.op # "predict" => (idx' = idx /\ saved' = saved)
       /\ idx' >= idx
       /\ Cardinality(saved') = idx' /\ Keys(saved') = 0..(idx' - 1)]_vars

\* Two images saved, one of each bucket, with a clear between them.
C16_Witness ==
    /\ flag_for_save_img
    /\ had_reset
    /\ call.op = "predict"
    /\ idx = 2
    /\ saved = {<<"num", 0>>, <<"noise", 1>>}

----------------------------------------------------------------------------
\* The history of engine e, two engines side by side.
HistoryOf(h, es, e) == h[es[e].output_queue]

\* C17: every engine has a history and a cached stabilized label of its own: a
\* predict or a clear_most_frequent_label call on one engine leaves the
\* history and the stabilized label of the other as they were.
C17_EnginesIndependent ==
    [][\A e \in Engines : call'.engine = e =>
          \A o \in Engines \ {e} :
              /\ HistoryOf(heap', engines', o) = HistoryOf(heap, engines, o)
              /\ engines'[o].most_frequent_label = engines[o].most_frequent_label
              /\ engines'[o].output_queue # engines'[e].output_queue]_vars

\* Engine 1 is cleared while engine 2 holds a history and a label.
C17_Witness ==
    /\ call.op = "clear_most_frequent_label"
    /\ call.engine = 1
    /\ HistoryOf(heap, engines, 1) = <<>>
    /\ Len(HistoryOf(heap, engines, 2)) = engines[2].output_queue_cap
    /\ engines[2].most_frequent_label # ""
    /\ engines[1].most_frequent_label = ""

----------------------------------------------------------------------------
\* C18: the history holds accepted raw labels only: no element is "", "Noise"
\* or "NaN", and every element has at least three characters; predict never
\* gets the empty label of make_label from the detector.
C18_OnlyAcceptedLabels ==
    /\ \A i \in 1..Len(output_queue) :
           /\ output_queue[i] \notin {"", "Noise", "NaN"}
           /\ Len(output_queue[i]) >= 3
    /\ (call.op = "predict" /\ ret.flag) => (ret.raw # "" /\ Len(ret.raw) >= 3)
    /\ (call.op = "predict" /\ Times(invoked, "get_most_frequent_label") = 1)
           => Len(call.prediction.rows) >= 3

\* A full history after a frame of two boxes, which make_label would turn into
\* the empty label.
C18_Witness ==
    /\ IsNoLabelCall(call)
    /\ Len(call.prediction.rows) = 2
    /\ Len(output_queue) = 3
    /\ "719-0" \in Range(output_queue)
    /\ ret.raw = "NaN"

----------------------------------------------------------------------------
\* C19: between calls the cached stabilized label is what
\* get_most_frequent_label() returns of the history: "" exactly when the
\* history is empty, else its majority label, which is one of its elements;
\* after a labelled frame it is not "" until the next clear.
C19_CacheIsMajority ==
    /\ most_frequent_label = "" <=> output_queue = <<>>
    /\ output_queue # <<>> =>
           /\ IsMajority(output_queue, most_frequent_label)
           /\ most_frequent_label \in Range(output_queue)
    /\ accepted # <<>> => most_frequent_label # ""
    /\ call.op = "get_most_frequent_label" => ret.label = most_frequent_label

\* A noisy frame after a reset and an eviction: the cached label is the
\* majority of a full history and not its oldest label.
C19_Witness ==
    /\ IsNoiseCall(call)
    /\ had_reset
    /\ Len(accepted) > output_queue_cap
    /\ Cardinality(Range(output_queue)) >= 2
    /\ most_frequent_label # output_queue[1]
    /\ ret.label = most_frequent_label

====
